---- MODULE Spec2Model ----
(***************************************************************************)
(* ModbusSimulatorServer (pymodbus/server/simulator/http_server.py):       *)
(* the joint lifecycle of the modbus server task and the aiohttp listener, *)
(* and the static file handler handle_html.                                *)
(***************************************************************************)
EXTENDS Integers, Sequences, FiniteSets, TLC

\* ------------------------------------------------------------------ bounds
\* Largest value of the logical clock.
MaxNow == 3
\* Longest delay, in clock ticks, that modbus_server.start() may take.
MaxDelay == 2
\* Most calls of the public stop() in one run.
MaxStops == 2
\* Most path segments in the tail of a GET request.
MaxSegs == 3
\* Most times the application fires on_shutdown in one run.
MaxShutdowns == 2

VARIABLES
    rf,           \* position of run_forever
    hook,         \* position of start_modbus_server (on_startup)
    shut,         \* position of stop_modbus_server (on_shutdown)
    hasStart,     \* getattr(self.modbus_server, "start", None) is truthy
    startExc,     \* modbus_server.start() raised
    task,         \* state of the task running modbus_server.serve_forever()
    taskExc,      \* phase in which serve_forever raised: "none", "init", "fatal"
    cancelReq,    \* task.cancel() was requested and not yet honoured
    slot,         \* app["modbus_server"]
    site,         \* self.site
    accepting,    \* the HTTP listener is bound and accepts connections
    log,          \* messages written to _logger
    stops,        \* number of calls of stop()
    stopRes,      \* outcome of the last call of stop()
    now,          \* logical clock
    delay,        \* ticks start() takes in this run
    prepareAt,    \* clock when start() was awaited, -1 before
    acceptAt,     \* clock when the listener began accepting, -1 before
    servedAt,     \* clock when the task entered its serve loop, -1 before
    fsFiles,      \* regular files present in the file system
    req,          \* the last GET request: its path tail
    resp,         \* status of the last response, 0 before any
    opened,       \* the path handed to open(), <<"?">> before any
    honours,      \* serve_forever honours a cancellation at a suspension point
    shutCalls,    \* number of times stop_modbus_server was entered
    created,      \* number of calls of asyncio.create_task
    prepares,     \* number of calls of modbus_server.start()
    route,        \* the handler the last request was dispatched to
    body,         \* the posted data of the last POST request
    cfg,          \* the arguments of __init__ and what setup.json holds
    ctor,         \* position of __init__
    built,        \* what __init__ has constructed or registered so far
    ctorExc       \* the exception __init__ raised, "none" if none

lvars == <<rf, hook, shut, hasStart, startExc, task, taskExc, cancelReq, slot,
           site, accepting, log, stops, stopRes, now, delay, prepareAt,
           acceptAt, servedAt, honours, shutCalls, created, prepares>>
aux == <<honours, shutCalls, created, prepares>>
hvars == <<fsFiles, req, resp, opened, route, body>>
cvars == <<cfg, ctor, built, ctorExc>>
vars == <<lvars, hvars, cvars>>

\* --------------------------------------------------------------- lifecycle
Active == {"scheduled", "serving"}
Terminated == {"failed", "cancelled", "finished"}

\* The event loop of run_forever is executing callbacks.
LoopRunning == rf \in {"setup", "site", "running"}

\* Everything __init__ builds and registers, in the order it does.
AllBuilt == {"setup", "context", "server", "routes", "hooks"}

\* A configuration __init__ accepts.
GoodCfg ==
    [web |-> TRUE, json |-> "ok", actions |-> "none", server |-> TRUE,
     device |-> TRUE, comm |-> "tcp", framer |-> "socket"]

\* The state __init__ leaves when it returns.
InitConstructed ==
    /\ cfg = GoodCfg
    /\ ctor = "done"
    /\ built = AllBuilt
    /\ ctorExc = "none"

InitLifecycle ==
    /\ rf = "init"
    /\ hook = "idle"
    /\ shut = "idle"
    /\ hasStart \in BOOLEAN
    /\ startExc = FALSE
    /\ task = "none"
    /\ taskExc = "none"
    /\ cancelReq = FALSE
    /\ slot = "empty"
    /\ site = "None"
    /\ accepting = FALSE
    /\ log = {}
    /\ stops = 0
    /\ stopRes = "idle"
    /\ now = 0
    /\ delay = 0
    /\ prepareAt = -1
    /\ acceptAt = -1
    /\ servedAt = -1
    /\ honours \in BOOLEAN
    /\ shutCalls = 0
    /\ created = 0
    /\ prepares = 0

InitHtmlIdle ==
    /\ fsFiles = {}
    /\ req = [abs |-> FALSE, segs |-> <<>>]
    /\ resp = 0
    /\ opened = <<"?">>
    /\ route = "none"
    /\ body = "none"

Init == InitLifecycle /\ InitHtmlIdle /\ InitConstructed

\* run_forever: new loop, AppRunner, run_until_complete(runner.setup()),
\* which fires on_startup.
RunForever ==
    /\ rf = "init"
    /\ rf' = "setup"
    /\ hook' = "enter"
    /\ UNCHANGED hvars
    /\ UNCHANGED cvars
    /\ UNCHANGED aux
    /\ UNCHANGED <<shut, hasStart, startExc, task, taskExc, cancelReq, slot,
                   site, accepting, log, stops, stopRes, now, delay,
                   prepareAt, acceptAt, servedAt>>

\* A variant that never calls start(), whatever the backend implements.
HookEnterSkipPrepare ==
    /\ hook = "enter"
    /\ hook' = "create"
    /\ UNCHANGED hvars
    /\ UNCHANGED cvars
    /\ UNCHANGED aux
    /\ UNCHANGED <<rf, shut, hasStart, startExc, task, taskExc, cancelReq,
                   slot, site, accepting, log, stops, stopRes, now, acceptAt,
                   servedAt, prepareAt, delay>>

\* start_modbus_server: the getattr test, then either await start() or go on.
HookEnter ==
    /\ hook = "enter"
    /\ IF hasStart
         THEN /\ hook' = "prepare"
              /\ prepareAt' = now
              /\ prepares' = prepares + 1
              /\ \E d \in 0..MaxDelay :
                    /\ now + d <= MaxNow
                    /\ delay' = d
         ELSE /\ hook' = "create"
              /\ UNCHANGED <<prepareAt, delay, prepares>>
    /\ UNCHANGED hvars
    /\ UNCHANGED cvars
    /\ UNCHANGED <<honours, shutCalls, created>>
    /\ UNCHANGED <<rf, shut, hasStart, startExc, task, taskExc, cancelReq,
                   slot, site, accepting, log, stops, stopRes, now, acceptAt,
                   servedAt>>

\* await self.modbus_server.start() returns normally.
PrepareReturn ==
    /\ hook = "prepare"
    /\ now >= prepareAt + delay
    /\ hook' = "create"
    /\ UNCHANGED hvars
    /\ UNCHANGED cvars
    /\ UNCHANGED aux
    /\ UNCHANGED <<rf, shut, hasStart, startExc, task, taskExc, cancelReq,
                   slot, site, accepting, log, stops, stopRes, now, delay,
                   prepareAt, acceptAt, servedAt>>

\* A variant that logs the error and carries on to create the task.
PrepareRaiseSwallowed ==
    /\ hook = "prepare"
    /\ startExc' = TRUE
    /\ log' = log \cup {"Error starting modbus server"}
    /\ hook' = "create"
    /\ UNCHANGED hvars
    /\ UNCHANGED cvars
    /\ UNCHANGED aux
    /\ UNCHANGED <<rf, shut, hasStart, task, taskExc, cancelReq, slot, site,
                   accepting, stops, stopRes, now, delay, prepareAt, acceptAt,
                   servedAt>>

\* await self.modbus_server.start() raises: except Exception, log, raise.
PrepareRaise ==
    /\ hook = "prepare"
    /\ startExc' = TRUE
    /\ log' = log \cup {"Error starting modbus server"}
    /\ hook' = "raised"
    /\ UNCHANGED hvars
    /\ UNCHANGED cvars
    /\ UNCHANGED aux
    /\ UNCHANGED <<rf, shut, hasStart, task, taskExc, cancelReq, slot, site,
                   accepting, stops, stopRes, now, delay, prepareAt, acceptAt,
                   servedAt>>

\* A variant that creates the task and does not keep its handle.
CreateTaskNoStore ==
    /\ hook = "create"
    /\ task' = "scheduled"
    /\ log' = log \cup {"Modbus server started"}
    /\ hook' = "done"
    /\ created' = created + 1
    /\ UNCHANGED hvars
    /\ UNCHANGED cvars
    /\ UNCHANGED <<honours, shutCalls, prepares>>
    /\ UNCHANGED <<rf, shut, hasStart, startExc, taskExc, cancelReq, site,
                   accepting, stops, stopRes, now, delay, prepareAt, acceptAt,
                   servedAt, slot>>

\* app["modbus_server"] = asyncio.create_task(serve_forever()); info log.
CreateTask ==
    /\ hook = "create"
    /\ task' = "scheduled"
    /\ slot' = "task"
    /\ log' = log \cup {"Modbus server started"}
    /\ hook' = "done"
    /\ created' = created + 1
    /\ UNCHANGED hvars
    /\ UNCHANGED cvars
    /\ UNCHANGED <<honours, shutCalls, prepares>>
    /\ UNCHANGED <<rf, shut, hasStart, startExc, taskExc, cancelReq, site,
                   accepting, stops, stopRes, now, delay, prepareAt, acceptAt,
                   servedAt>>

\* A variant that does not wait for the startup hook before creating the site.
SetupReturnEarly ==
    /\ rf = "setup"
    /\ hook \in {"enter", "prepare", "create", "done"}
    /\ rf' = "site"
    /\ site' = "created"
    /\ UNCHANGED hvars
    /\ UNCHANGED cvars
    /\ UNCHANGED aux
    /\ UNCHANGED <<hook, shut, hasStart, startExc, task, taskExc, cancelReq,
                   slot, accepting, log, stops, stopRes, now, delay,
                   prepareAt, acceptAt, servedAt>>

\* runner.setup() returns once the startup hook has; TCPSite is created.
SetupReturn ==
    /\ rf = "setup"
    /\ hook = "done"
    /\ rf' = "site"
    /\ site' = "created"
    /\ UNCHANGED hvars
    /\ UNCHANGED cvars
    /\ UNCHANGED aux
    /\ UNCHANGED <<hook, shut, hasStart, startExc, task, taskExc, cancelReq,
                   slot, accepting, log, stops, stopRes, now, delay,
                   prepareAt, acceptAt, servedAt>>

\* runner.setup() raises what the startup hook raised: log, raise.
SetupRaise ==
    /\ rf = "setup"
    /\ hook = "raised"
    /\ rf' = "raised"
    /\ log' = log \cup {"Error starting http server"}
    /\ UNCHANGED hvars
    /\ UNCHANGED cvars
    /\ UNCHANGED aux
    /\ UNCHANGED <<hook, shut, hasStart, startExc, task, taskExc, cancelReq,
                   slot, site, accepting, stops, stopRes, now, delay,
                   prepareAt, acceptAt, servedAt>>

\* site.start() succeeds: the listener accepts; info log; loop.run_forever().
SiteStartOk ==
    /\ rf = "site"
    /\ rf' = "running"
    /\ site' = "started"
    /\ accepting' = TRUE
    /\ acceptAt' = now
    /\ log' = log \cup {"HTTP server started"}
    /\ UNCHANGED hvars
    /\ UNCHANGED cvars
    /\ UNCHANGED aux
    /\ UNCHANGED <<hook, shut, hasStart, startExc, task, taskExc, cancelReq,
                   slot, stops, stopRes, now, delay, prepareAt, servedAt>>

\* A variant that retries the whole startup once when site.start() raises.
SiteStartRaiseRetry ==
    /\ rf = "site"
    /\ log' = log \cup {"Error starting http server"}
    /\ IF created < 2
         THEN /\ rf' = "setup"
              /\ hook' = "enter"
         ELSE /\ rf' = "raised"
              /\ UNCHANGED hook
    /\ UNCHANGED hvars
    /\ UNCHANGED cvars
    /\ UNCHANGED aux
    /\ UNCHANGED <<shut, hasStart, startExc, task, taskExc, cancelReq,
                   slot, site, accepting, stops, stopRes, now, delay,
                   prepareAt, acceptAt, servedAt>>

\* site.start() raises (the port is taken): log, raise; nothing is undone.
SiteStartRaise ==
    /\ rf = "site"
    /\ rf' = "raised"
    /\ log' = log \cup {"Error starting http server"}
    /\ UNCHANGED hvars
    /\ UNCHANGED cvars
    /\ UNCHANGED aux
    /\ UNCHANGED <<hook, shut, hasStart, startExc, task, taskExc, cancelReq,
                   slot, site, accepting, stops, stopRes, now, delay,
                   prepareAt, acceptAt, servedAt>>

\* ------------------------------------------------ the serve_forever task
\* The task gets its first turn on the loop and enters its serve loop.
TaskBegin ==
    /\ LoopRunning
    /\ task = "scheduled"
    /\ ~cancelReq
    /\ task' = "serving"
    /\ servedAt' = now
    /\ UNCHANGED hvars
    /\ UNCHANGED cvars
    /\ UNCHANGED aux
    /\ UNCHANGED <<rf, hook, shut, hasStart, startExc, taskExc, cancelReq,
                   slot, site, accepting, log, stops, stopRes, now, delay,
                   prepareAt, acceptAt>>

\* serve_forever raises: in its initial phase, or a fatal error while serving.
TaskFail ==
    /\ LoopRunning
    /\ task \in Active
    /\ task' = "failed"
    /\ taskExc' = IF task = "scheduled" THEN "init" ELSE "fatal"
    /\ cancelReq' = FALSE
    /\ UNCHANGED hvars
    /\ UNCHANGED cvars
    /\ UNCHANGED aux
    /\ UNCHANGED <<rf, hook, shut, hasStart, startExc, slot, site, accepting,
                   log, stops, stopRes, now, delay, prepareAt, acceptAt,
                   servedAt>>

\* The task honours a requested cancellation at its suspension point.
TaskCancelled ==
    /\ LoopRunning
    /\ honours
    /\ task \in Active
    /\ cancelReq
    /\ task' = "cancelled"
    /\ cancelReq' = FALSE
    /\ UNCHANGED hvars
    /\ UNCHANGED cvars
    /\ UNCHANGED aux
    /\ UNCHANGED <<rf, hook, shut, hasStart, startExc, taskExc, slot, site,
                   accepting, log, stops, stopRes, now, delay, prepareAt,
                   acceptAt, servedAt>>

\* ---------------------------------------------------------------- shutdown
\* The application shuts down gracefully: the runner stops its sites, then
\* fires on_shutdown, to which stop_modbus_server was appended.
Cleanup ==
    /\ rf = "running"
    /\ shut = "idle"
    /\ accepting' = FALSE
    /\ shut' = "cancel"
    /\ shutCalls' = shutCalls + 1
    /\ UNCHANGED hvars
    /\ UNCHANGED cvars
    /\ UNCHANGED <<honours, created, prepares>>
    /\ UNCHANGED <<rf, hook, hasStart, startExc, task, taskExc, cancelReq,
                   slot, site, log, stops, stopRes, now, delay, prepareAt,
                   acceptAt, servedAt>>

\* on_shutdown is fired once more after the hook was left (the application's
\* shutdown() called again): stop_modbus_server is entered again.
ShutdownAgain ==
    /\ rf = "running"
    /\ shut \in {"done", "raised"}
    /\ shutCalls < MaxShutdowns
    /\ shut' = "cancel"
    /\ shutCalls' = shutCalls + 1
    /\ UNCHANGED hvars
    /\ UNCHANGED cvars
    /\ UNCHANGED <<honours, created, prepares>>
    /\ UNCHANGED <<rf, hook, hasStart, startExc, task, taskExc, cancelReq,
                   slot, site, accepting, log, stops, stopRes, now, delay,
                   prepareAt, acceptAt, servedAt>>

\* stop_modbus_server: info log; app["modbus_server"].cancel().
StopCancel ==
    /\ shut = "cancel"
    /\ log' = log \cup {"Stopping modbus server"}
    /\ IF slot = "empty"
         THEN /\ shut' = "raised"
              /\ UNCHANGED cancelReq
         ELSE /\ shut' = "await"
              /\ cancelReq' = IF task \in Active THEN TRUE ELSE cancelReq
    /\ UNCHANGED hvars
    /\ UNCHANGED cvars
    /\ UNCHANGED aux
    /\ UNCHANGED <<rf, hook, hasStart, startExc, task, taskExc, slot, site,
                   accepting, stops, stopRes, now, delay, prepareAt, acceptAt,
                   servedAt>>

\* A variant that cancels and returns without awaiting the task.
StopAwaitForget ==
    /\ shut = "await"
    /\ shut' = "done"
    /\ log' = log \cup {"Modbus server Stopped"}
    /\ UNCHANGED hvars
    /\ UNCHANGED cvars
    /\ UNCHANGED aux
    /\ UNCHANGED <<rf, hook, hasStart, startExc, task, taskExc, cancelReq,
                   slot, site, accepting, stops, stopRes, now, delay,
                   prepareAt, acceptAt, servedAt>>

\* A variant that gives up waiting for a task that is still unwinding.
StopAwaitTimeout ==
    /\ shut = "await"
    /\ shut' = "raised"
    /\ UNCHANGED hvars
    /\ UNCHANGED cvars
    /\ UNCHANGED aux
    /\ UNCHANGED <<rf, hook, hasStart, startExc, task, taskExc, cancelReq,
                   slot, site, accepting, stops, stopRes, now, delay,
                   prepareAt, acceptAt, servedAt, log>>

\* await app["modbus_server"]: resumes when the task is done; the await
\* raises what the task raised (CancelledError of a cancelled task), and only
\* a task that returned lets the hook reach its last log line.
StopAwait ==
    /\ shut = "await"
    /\ task \in Terminated
    /\ IF task = "finished"
         THEN /\ shut' = "done"
              /\ log' = log \cup {"Modbus server Stopped"}
         ELSE /\ shut' = "raised"
              /\ UNCHANGED log
    /\ UNCHANGED hvars
    /\ UNCHANGED cvars
    /\ UNCHANGED aux
    /\ UNCHANGED <<rf, hook, hasStart, startExc, task, taskExc, cancelReq,
                   slot, site, accepting, stops, stopRes, now, delay,
                   prepareAt, acceptAt, servedAt>>

\* stop(): self.site.stop() builds a coroutine that is never awaited, so
\* nothing of it runs; then self.site = None.
Stop ==
    /\ rf = "running"
    /\ stops < MaxStops
    /\ stops' = stops + 1
    /\ IF site = "None"
         THEN /\ stopRes' = "raised"
              /\ UNCHANGED site
         ELSE /\ stopRes' = "done"
              /\ site' = "None"
    /\ UNCHANGED hvars
    /\ UNCHANGED cvars
    /\ UNCHANGED aux
    /\ UNCHANGED <<rf, hook, shut, hasStart, startExc, task, taskExc,
                   cancelReq, slot, accepting, log, now, delay, prepareAt,
                   acceptAt, servedAt>>

\* Time passes while the loop runs.
Tick ==
    /\ LoopRunning
    /\ now < MaxNow
    /\ now' = now + 1
    /\ UNCHANGED hvars
    /\ UNCHANGED cvars
    /\ UNCHANGED aux
    /\ UNCHANGED <<rf, hook, shut, hasStart, startExc, task, taskExc,
                   cancelReq, slot, site, accepting, log, stops, stopRes,
                   delay, prepareAt, acceptAt, servedAt>>

\* The steps the program takes by itself once it is their turn.
ProgramStep ==
    \/ HookEnter
    \/ PrepareReturn
    \/ CreateTask
    \/ SetupReturn
    \/ SetupRaise
    \/ StopCancel
    \/ StopAwait
    \/ TaskCancelled

Next ==
    \/ RunForever
    \/ HookEnter
    \/ PrepareReturn
    \/ PrepareRaise
    \/ CreateTask
    \/ SetupReturn
    \/ SetupRaise
    \/ SiteStartOk
    \/ SiteStartRaise
    \/ TaskBegin
    \/ TaskFail
    \/ TaskCancelled
    \/ Cleanup
    \/ ShutdownAgain
    \/ StopCancel
    \/ StopAwait
    \/ Stop
    \/ Tick

Spec == Init /\ [][Next]_vars

FairSpec == Spec /\ WF_vars(ProgramStep)

\* ------------------------------------------------------------- handle_html
\* Names a path segment may have; ".." is the parent directory.
Names == {"..", "index.html", "etc", "passwd"}

\* self.web_path, the asset root, as an absolute path.
web_path == <<"web">>

\* Directories of the file system; <<>> is "/".
Dirs == {<<>>, <<"web">>, <<"etc">>, <<"web", "etc">>}

\* Regular files that may be present.
FileCandidates ==
    {<<"web", "index.html">>, <<"web", "passwd">>, <<"etc", "passwd">>,
     <<"passwd">>}

\* Sequences over S of length at most n.
SeqUpTo(S, n) == UNION {[1..k -> S] : k \in 0..n}

\* request.path[1:]: the segments, and whether the tail itself starts at "/".
Tails == [abs : BOOLEAN, segs : SeqUpTo(Names, MaxSegs)]

\* A variant that leaves the empty page as it is.
PageKeepEmpty(t) == t

\* if (page := request.path[1:]) == "": page = "index.html"
Page(t) ==
    IF ~t.abs /\ t.segs = <<>> THEN [abs |-> FALSE, segs |-> <<"index.html">>]
    ELSE t

\* os.path.join(self.web_path, page): an absolute page discards the root.
Join(root, page) == IF page.abs THEN page.segs ELSE root \o page.segs

Parent(path) == IF path = <<>> THEN <<>> ELSE SubSeq(path, 1, Len(path) - 1)

\* The path as written, with its ".." segments folded (os.path.normpath).
RECURSIVE NormFrom(_, _)
NormFrom(cur, rest) ==
    IF rest = <<>> THEN cur
    ELSE IF Head(rest) = ".." THEN NormFrom(Parent(cur), Tail(rest))
    ELSE NormFrom(Append(cur, Head(rest)), Tail(rest))

Normalize(path) == NormFrom(<<>>, path)

\* path is root or lies below it.
Inside(root, path) ==
    /\ Len(path) >= Len(root)
    /\ SubSeq(path, 1, Len(root)) = root

\* open(file): the kernel walks the path; every segment but the last must
\* name a directory. The result is the file reached, or the error raised.
RECURSIVE OpenFrom(_, _, _)
OpenFrom(files, cur, rest) ==
    IF rest = <<>>
      THEN IF cur \in Dirs THEN [err |-> "IsADirectoryError", at |-> cur]
           ELSE IF cur \in files THEN [err |-> "ok", at |-> cur]
           ELSE [err |-> "FileNotFoundError", at |-> cur]
    ELSE IF cur \in files THEN [err |-> "NotADirectoryError", at |-> cur]
    ELSE IF cur \notin Dirs THEN [err |-> "FileNotFoundError", at |-> cur]
    ELSE IF Head(rest) = ".." THEN OpenFrom(files, Parent(cur), Tail(rest))
    ELSE OpenFrom(files, Append(cur, Head(rest)), Tail(rest))

Open(files, path) == OpenFrom(files, <<>>, path)

\* handle_html: FileResponse when open succeeds, HTTPNotFound on the two
\* caught errors; any other error leaves the handler and is answered 500.
HandleHtml(files, t) ==
    LET file == Join(web_path, Page(t))
        o == Open(files, file)
    IN  [opened |-> file,
         served |-> o.at,
         status |-> IF o.err = "ok" THEN 200
                    ELSE IF o.err \in {"FileNotFoundError", "IsADirectoryError"}
                           THEN 404
                    ELSE 500]

\* Both servers are up: the state in which requests are handled.
UpLifecycle ==
    /\ rf = "running"
    /\ hook = "done"
    /\ shut = "idle"
    /\ hasStart = FALSE
    /\ startExc = FALSE
    /\ task = "serving"
    /\ taskExc = "none"
    /\ cancelReq = FALSE
    /\ slot = "task"
    /\ site = "started"
    /\ accepting = TRUE
    /\ log = {"Modbus server started", "HTTP server started"}
    /\ stops = 0
    /\ stopRes = "idle"
    /\ now = 0
    /\ delay = 0
    /\ prepareAt = -1
    /\ acceptAt = 0
    /\ servedAt = 0
    /\ honours = TRUE
    /\ shutCalls = 0
    /\ created = 1
    /\ prepares = 0

InitHtml ==
    /\ UpLifecycle
    /\ InitConstructed
    /\ route = "none"
    /\ body = "none"
    /\ fsFiles \in SUBSET FileCandidates
    /\ req = [abs |-> FALSE, segs |-> <<>>]
    /\ resp = 0
    /\ opened = <<"?">>

\* GET /{tail:.*} is dispatched to handle_html; one request is followed.
GetHtml ==
    /\ accepting
    /\ resp = 0
    /\ \E t \in Tails :
          LET r == HandleHtml(fsFiles, t)
          IN  /\ req' = t
              /\ resp' = r.status
              /\ opened' = r.opened
    /\ route' = "html"
    /\ UNCHANGED <<fsFiles, body>>
    /\ UNCHANGED lvars
    /\ UNCHANGED cvars

\* What a POST request may carry: nothing, or form fields.
Bodies == {"", "reg=1", "reg=1&val=2"}

\* await request.post(): the posted fields the handler receives.
PostData(b) == IF b = "" THEN "{}" ELSE "{" \o b \o "}"

\* handle_api: POST /api answers 200, "got api <data>".
PostApi ==
    /\ accepting
    /\ resp = 0
    /\ \E b \in Bodies :
          /\ body' = PostData(b)
          /\ resp' = 200
    /\ route' = "api"
    /\ UNCHANGED <<fsFiles, req, opened>>
    /\ UNCHANGED lvars
    /\ UNCHANGED cvars

\* handle_api_data: POST /api/data answers 200, "got api data".
PostApiData ==
    /\ accepting
    /\ resp = 0
    /\ \E b \in Bodies :
          /\ body' = PostData(b)
          /\ resp' = 200
    /\ route' = "api_data"
    /\ UNCHANGED <<fsFiles, req, opened>>
    /\ UNCHANGED lvars
    /\ UNCHANGED cvars

\* handle_api_request: POST /api/request answers 200, "got api request".
PostApiRequest ==
    /\ accepting
    /\ resp = 0
    /\ \E b \in Bodies :
          /\ body' = PostData(b)
          /\ resp' = 200
    /\ route' = "api_request"
    /\ UNCHANGED <<fsFiles, req, opened>>
    /\ UNCHANGED lvars
    /\ UNCHANGED cvars

NextHtml ==
    \/ GetHtml
    \/ PostApi
    \/ PostApiData
    \/ PostApiRequest

SpecHtml == InitHtml /\ [][NextHtml]_vars

\* ---------------------------------------------------------------- __init__
\* The keys of comm_class and of framer_class.
CommNames == {"serial", "tcp", "tls", "udp"}
FramerNames == {"ascii", "binary", "rtu", "socket", "tls"}

\* What __init__ may be given: whether aiohttp is installed, the state of
\* the json file, the custom actions module, whether the server and device
\* names are in their lists, and the comm and framer values of the profile.
Cfgs ==
    [web : BOOLEAN,
     json : {"ok", "missing", "invalid"},
     actions : {"none", "ok", "no_module", "no_attr"},
     server : BOOLEAN,
     device : BOOLEAN,
     comm : CommNames \cup {"other"},
     framer : FramerNames \cup {"other"}]

InitCtor ==
    /\ InitLifecycle
    /\ InitHtmlIdle
    /\ cfg \in Cfgs
    /\ ctor = "start"
    /\ built = {}
    /\ ctorExc = "none"

\* if not web: raise RuntimeError("aiohttp not installed!")
CtorCheckWeb ==
    /\ ctor = "start"
    /\ IF cfg.web
         THEN /\ ctor' = "json"
              /\ built' = built
              /\ UNCHANGED ctorExc
         ELSE /\ ctor' = "raised"
              /\ ctorExc' = "RuntimeError"
              /\ UNCHANGED built
    /\ UNCHANGED cfg
    /\ UNCHANGED lvars
    /\ UNCHANGED hvars

\* with open(json_file) as file: setup = json.load(file)
CtorLoadJson ==
    /\ ctor = "json"
    /\ IF cfg.json = "ok"
         THEN /\ ctor' = "actions"
              /\ built' = built \cup {"setup"}
              /\ UNCHANGED ctorExc
         ELSE /\ ctor' = "raised"
              /\ ctorExc' = IF cfg.json = "missing" THEN "FileNotFoundError" ELSE "JSONDecodeError"
              /\ UNCHANGED built
    /\ UNCHANGED cfg
    /\ UNCHANGED lvars
    /\ UNCHANGED hvars

\* if custom_actions_module: import_module(...).custom_actions_dict
CtorLoadActions ==
    /\ ctor = "actions"
    /\ IF cfg.actions \in {"none", "ok"}
         THEN /\ ctor' = "server"
              /\ built' = built \cup (IF cfg.actions = "ok" THEN {"actions"} ELSE {})
              /\ UNCHANGED ctorExc
         ELSE /\ ctor' = "raised"
              /\ ctorExc' = IF cfg.actions = "no_module" THEN "ModuleNotFoundError" ELSE "AttributeError"
              /\ UNCHANGED built
    /\ UNCHANGED cfg
    /\ UNCHANGED lvars
    /\ UNCHANGED hvars

\* server = setup["server_list"][modbus_server]
CtorLookupServer ==
    /\ ctor = "server"
    /\ IF cfg.server
         THEN /\ ctor' = "device"
              /\ built' = built
              /\ UNCHANGED ctorExc
         ELSE /\ ctor' = "raised"
              /\ ctorExc' = "KeyError"
              /\ UNCHANGED built
    /\ UNCHANGED cfg
    /\ UNCHANGED lvars
    /\ UNCHANGED hvars

\* device = setup["device_list"][modbus_device]
CtorLookupDevice ==
    /\ ctor = "device"
    /\ IF cfg.device
         THEN /\ ctor' = "context"
              /\ built' = built
              /\ UNCHANGED ctorExc
         ELSE /\ ctor' = "raised"
              /\ ctorExc' = "KeyError"
              /\ UNCHANGED built
    /\ UNCHANGED cfg
    /\ UNCHANGED lvars
    /\ UNCHANGED hvars

\* context = ModbusSimulatorContext(...); self.datastore = ModbusServerContext(...)
CtorBuildContext ==
    /\ ctor = "context"
    /\ ctor' = "comm"
    /\ built' = built \cup {"context"}
    /\ UNCHANGED ctorExc
    /\ UNCHANGED cfg
    /\ UNCHANGED lvars
    /\ UNCHANGED hvars

\* comm = comm_class[server.pop("comm")]
CtorLookupComm ==
    /\ ctor = "comm"
    /\ IF cfg.comm \in CommNames
         THEN /\ ctor' = "framer"
              /\ built' = built
              /\ UNCHANGED ctorExc
         ELSE /\ ctor' = "raised"
              /\ ctorExc' = "KeyError"
              /\ UNCHANGED built
    /\ UNCHANGED cfg
    /\ UNCHANGED lvars
    /\ UNCHANGED hvars

\* A variant that falls back to a default framer for an unknown name.
CtorLookupFramerLenient ==
    /\ ctor = "framer"
    /\ ctor' = "build"
    /\ UNCHANGED <<built, ctorExc>>
    /\ UNCHANGED cfg
    /\ UNCHANGED lvars
    /\ UNCHANGED hvars

\* framer = framer_class[server.pop("framer")]
CtorLookupFramer ==
    /\ ctor = "framer"
    /\ IF cfg.framer \in FramerNames
         THEN /\ ctor' = "build"
              /\ built' = built
              /\ UNCHANGED ctorExc
         ELSE /\ ctor' = "raised"
              /\ ctorExc' = "KeyError"
              /\ UNCHANGED built
    /\ UNCHANGED cfg
    /\ UNCHANGED lvars
    /\ UNCHANGED hvars

\* self.modbus_server = comm(framer=framer, context=self.datastore, **server)
CtorBuildServer ==
    /\ ctor = "build"
    /\ ctor' = "routes"
    /\ built' = built \cup {"server"}
    /\ UNCHANGED ctorExc
    /\ UNCHANGED cfg
    /\ UNCHANGED lvars
    /\ UNCHANGED hvars

\* self.web_app = web.Application(); self.web_app.add_routes([...])
CtorAddRoutes ==
    /\ ctor = "routes"
    /\ ctor' = "hooks"
    /\ built' = built \cup {"routes"}
    /\ UNCHANGED ctorExc
    /\ UNCHANGED cfg
    /\ UNCHANGED lvars
    /\ UNCHANGED hvars

\* on_startup.append(start_modbus_server); on_shutdown.append(stop_modbus_server)
CtorAddHooks ==
    /\ ctor = "hooks"
    /\ ctor' = "done"
    /\ built' = built \cup {"hooks"}
    /\ UNCHANGED ctorExc
    /\ UNCHANGED cfg
    /\ UNCHANGED lvars
    /\ UNCHANGED hvars

NextCtor ==
    \/ CtorCheckWeb
    \/ CtorLoadJson
    \/ CtorLoadActions
    \/ CtorLookupServer
    \/ CtorLookupDevice
    \/ CtorBuildContext
    \/ CtorLookupComm
    \/ CtorLookupFramer
    \/ CtorBuildServer
    \/ CtorAddRoutes
    \/ CtorAddHooks

SpecCtor == InitCtor /\ [][NextCtor]_vars

\* ------------------------------------------------------------ properties
\* The shutdown hook has left stop_modbus_server, by return or by exception.
ShutExited == shut \in {"done", "raised"}

\* C1: the HTTP listener accepts connections only after the startup hook
\* start_modbus_server has completed; it never accepts while the hook is
\* still running or has not run.
C1_ListenerAfterStartupHook ==
    (accepting \/ acceptAt # -1 \/ rf \in {"site", "running"}) => hook = "done"

C1_Witness ==
    /\ accepting
    /\ hook = "done"
    /\ hasStart
    /\ delay > 0

\* C2: when modbus_server.start() raises inside the startup hook, the hook
\* logs and re-raises, no task is created or stored in the slot, and the
\* listener never accepts: run_forever raises before site.start and before
\* loop.run_forever.
C2_PrepareFailureAbortsHttp ==
    startExc =>
        /\ hook = "raised"
        /\ "Error starting modbus server" \in log
        /\ task = "none"
        /\ slot = "empty"
        /\ site = "None"
        /\ ~accepting
        /\ acceptAt = -1
        /\ rf \in {"setup", "raised"}

C2_Witness ==
    /\ startExc
    /\ rf = "raised"
    /\ "Error starting http server" \in log

\* C3: in every state in which the HTTP listener accepts connections, the
\* serve task is active (created, not finished, not cancelled), also when
\* the task ends by itself with a fatal error after Up.
C3_AcceptingImpliesTaskActive ==
    accepting => task \in Active

\* C4: an exception raised in the initial phase of serve_forever is logged
\* and re-raised to the caller of the startup hook, so the HTTP listener
\* does not come up with a half-started protocol server.
C4_EarlyServeErrorReRaised ==
    taskExc = "init" =>
        /\ hook = "raised"
        /\ "Error starting modbus server" \in log
        /\ ~accepting

\* C5: the serve task has begun executing its serve loop, not merely been
\* scheduled, before the HTTP listener accepts its first connection, and a
\* delay in start() delays the first accept by at least as much.
C5_ServingBeforeAccept ==
    acceptAt # -1 =>
        /\ servedAt # -1
        /\ servedAt <= acceptAt
        /\ (hasStart => acceptAt >= prepareAt + delay)

C7_TaskNeverOutlivesHttp ==
    \/ /\ rf = "raised"
       /\ hook = "done"
    \/ /\ acceptAt # -1
       /\ ~accepting
       /\ shut \notin {"cancel", "await"}
    => task \notin Active

\* C8: after stop() has been called in state Up and has completed, the HTTP
\* listener is eventually no longer accepting and the serve task has been
\* cancelled and has terminated, the shutdown hook having run.
C8_StopStopsBoth ==
    [](/\ stopRes = "done"
       /\ accepting
       /\ task = "serving"
       => <>(~accepting /\ task \in Terminated /\ ShutExited))

\* C9: a failure to cancel the serve task cleanly during shutdown, the
\* cancellation signal reaching the awaiting hook included, is logged and
\* shutdown proceeds: the shutdown hook still completes.
C9_ShutdownErrorLoggedAndSwallowed ==
    ShutExited =>
        /\ shut = "done"
        /\ "Modbus server Stopped" \in log

\* The tail holds a traversal sequence and the joined path leaves the root.
Escapes(t) ==
    /\ t.abs \/ \E i \in 1..Len(t.segs) : t.segs[i] = ".."
    /\ ~Inside(web_path, Normalize(Join(web_path, Page(t))))

\* C10: a request whose tail holds a traversal sequence, so that the joined
\* path lies outside web_path, is answered 404, and no open is attempted on
\* a path outside the asset root.
C10_TraversalRejected ==
    (resp # 0 /\ Escapes(req)) =>
        /\ resp = 404
        /\ Inside(web_path, Normalize(opened))

\* C11: after a completed shutdown, a second stop (the shutdown hook fired
\* again, or stop() called again) is a no-op or a reported error: the state
\* stays Down with the task terminated and the call does not end in an
\* unhandled exception.
C11_SecondStopHarmless ==
    /\ (shutCalls >= 2 /\ ShutExited) =>
          (shut = "done" /\ ~accepting /\ task \in Terminated)
    /\ (shutCalls >= 1 /\ ShutExited /\ stops >= 2) => stopRes = "done"

\* C12: once the shutdown hook has completed, the slot app["modbus_server"]
\* no longer holds the task handle; the slot is non-empty only between a
\* successful startup hook and the end of the shutdown hook.
C12_SlotClearedAfterShutdown ==
    /\ ShutExited => slot = "empty"
    /\ slot = "task" => (hook = "done" /\ ~ShutExited)

\* C12 as amended: the slot is empty until the startup hook succeeds, holds
\* the task handle from then on, and is never cleared: after the shutdown
\* hook has been left it still holds the terminated task.
C12_SlotKeptAfterShutdown ==
    /\ slot = "task" <=> hook = "done"
    /\ ShutExited => (slot = "task" /\ task \in Terminated)

C12_Witness ==
    /\ ShutExited
    /\ slot = "task"
    /\ task = "cancelled"

\* C16: serve_forever is scheduled as a task at most once and the slot is
\* written at most once; after the task has failed or was cancelled no new
\* task is created, and two serve tasks never exist.
C16_SingleSupervisedAttempt ==
    /\ created <= 1
    /\ created = 1 <=> task # "none"
    /\ slot = "task" => created = 1

C16_Witness ==
    /\ created = 1
    /\ task = "failed"
    /\ taskExc = "fatal"
    /\ rf = "running"
    /\ accepting

\* C17: in the startup hook start() is called exactly once if and only if
\* the backend implements it; the task is created and stored only after
\* start() has returned normally, directly for a backend without start();
\* "Modbus server started" is logged only when the slot holds the task.
C17_PrepareThenCreate ==
    /\ prepares = (IF hasStart /\ hook \notin {"idle", "enter"} THEN 1 ELSE 0)
    /\ (slot = "task" \/ task # "none") =>
          /\ ~startExc
          /\ hasStart => (prepareAt # -1 /\ now >= prepareAt + delay)
    /\ "Modbus server started" \in log => slot = "task"

C17_Witness ==
    /\ hasStart
    /\ prepares = 1
    /\ delay > 0
    /\ slot = "task"
    /\ "Modbus server started" \in log

\* C18: when the task honours cancellation, the shutdown hook is eventually
\* left; the hook leaves its await only when the task is done (no timeout, no
\* forced kill), so it does not return while a task that ignores the
\* cancellation is still active.
C18_CooperativeShutdownTerminates ==
    /\ (shut = "await" /\ honours) ~> ShutExited
    /\ [][(shut = "await" /\ shut' # "await") => task \in Terminated]_vars

C18_Witness ==
    /\ ShutExited
    /\ honours
    /\ task = "cancelled"
    /\ servedAt # -1

\* C19: the shutdown hook only runs where the slot was populated by a
\* successful startup hook, and stop() only runs where self.site holds a
\* started site: no stop path dereferences the empty slot or the None site.
C19_StopPathsPreconditions ==
    /\ shut # "idle" => slot = "task"
    /\ ~(shut = "raised" /\ slot = "empty")
    /\ stopRes # "raised"

\* C13: every request dispatched to one of the four handlers ends in one
\* response and never in an unhandled exception: the three POST handlers
\* answer 200, the static handler 200 when the file can be opened and 404
\* when the path is missing or is a directory.
C13_EveryRouteAnswers ==
    resp # 0 =>
        /\ route \in {"api", "api_data", "api_request"} => resp = 200
        /\ route = "html" => resp \in {200, 404}

EmptyTail == [abs |-> FALSE, segs |-> <<>>]
IndexTail == [abs |-> FALSE, segs |-> <<"index.html">>]

\* C14: for every content of the asset root, GET "/" resolves the same file
\* and gives the same response as GET "/index.html".
C14_EmptyPathIsIndex ==
    (route = "html" /\ req = EmptyTail) =>
        /\ resp = HandleHtml(fsFiles, IndexTail).status
        /\ opened = HandleHtml(fsFiles, IndexTail).opened
        /\ opened = <<"web", "index.html">>
        /\ resp = (IF <<"web", "index.html">> \in fsFiles THEN 200 ELSE 404)

C14_Witness ==
    /\ route = "html"
    /\ req = EmptyTail
    /\ resp = 200
    /\ opened = <<"web", "index.html">>

\* The profile name, comm or framer is unknown, or the actions module fails
\* to load: what the spec calls a configuration error.
BadProfile(c) ==
    \/ ~c.server
    \/ ~c.device
    \/ c.comm \notin CommNames
    \/ c.framer \notin FramerNames
    \/ c.actions \in {"no_module", "no_attr"}

====
